---- MODULE Spec2Model ----
(***************************************************************************)
(* Model of src/index.py: PDF text extraction with OCR fallback.           *)
(*                                                                         *)
(* Text is modelled at character level (a sequence of one-character        *)
(* strings) so that the header format, str.strip() and the 50-character    *)
(* threshold are computed the way the program computes them.               *)
(***************************************************************************)
EXTENDS Integers, Sequences, FiniteSets, TLC

(* ---------------------------- bounds ----------------------------------- *)
MaxPages == 4

(* ------------------------ program constants ---------------------------- *)
Threshold == 50
PreviewLimit == 1000

NL == "\n"
\* Python's None, as the value of output_txt
None == "<None>"

(* ------------------------- character helpers --------------------------- *)
Rep(c, n) == [i \in 1..n |-> c]

IsSpace(c) == c \in {" ", NL, "\t"}

SetMin(S) == CHOOSE x \in S : \A y \in S : x <= y
SetMax(S) == CHOOSE x \in S : \A y \in S : x >= y

\* str.strip(): drop leading and trailing whitespace
strip(s) ==
    LET keep == {i \in 1..Len(s) : ~IsSpace(s[i])}
    IN  IF keep = {} THEN << >> ELSE SubSeq(s, SetMin(keep), SetMax(keep))

DigitChar == <<"0", "1", "2", "3", "4", "5", "6", "7", "8", "9">>

\* decimal formatting of a non-negative integer, as in an f-string
RECURSIVE ToStr(_)
ToStr(n) == IF n < 10 THEN <<DigitChar[n + 1]>>
            ELSE ToStr(n \div 10) \o <<DigitChar[(n % 10) + 1]>>

\* a 0-based page header: {page_num} instead of {page_num + 1}
PageBlock_ZeroBased(n, page_text) ==
    <<"-", "-", "-", " ", "P", "a", "g", "e", " ">> \o ToStr(n - 1)
        \o <<" ", "-", "-", "-">> \o <<NL>> \o page_text \o <<NL, NL>>

\* f"--- Page {n} ---\n{page_text}\n\n"
PageBlock(n, page_text) ==
    <<"-", "-", "-", " ", "P", "a", "g", "e", " ">> \o ToStr(n)
        \o <<" ", "-", "-", "-">> \o <<NL>> \o page_text \o <<NL, NL>>

\* len(text.strip()) > 50
MeaningfulText(t) == Len(strip(t)) > Threshold

\* text[:min(1000, len(text))]
Preview(t) ==
    LET preview_length == IF Len(t) < PreviewLimit THEN Len(t) ELSE PreviewLimit
    IN  SubSeq(t, 1, preview_length)

(* ------------------------- environment inputs -------------------------- *)
\* text layers a page may carry: none, a long run of letters, and a letter
\* followed by a long run of blanks
EmptyLayer == << >>
LongLayer == Rep("a", Threshold + 1)
PaddedLayer == <<"a">> \o Rep(" ", Threshold)
PageTexts == {EmptyLayer, LongLayer, PaddedLayer}

RECURSIVE SeqsUpTo(_, _)
SeqsUpTo(S, n) ==
    IF n = 0 THEN {<< >>}
    ELSE LET prev == SeqsUpTo(S, n - 1)
         IN  prev \cup {Append(p, x) : p \in {q \in prev : Len(q) = n - 1}, x \in S}

Documents == {d \in SeqsUpTo(PageTexts, MaxPages) : Len(d) >= 1}

\* what image_to_string may do on a page: return recognised text, or raise
Recognised(t) == [ok |-> TRUE, text |-> t]
Failed == [ok |-> FALSE, text |-> << >>]
OcrOutcomes == {Recognised(<<"b">>), Failed}

\* command lines: sys.argv
ArgVectors ==
    {<<"prog">>, <<"prog", "doc.pdf">>}
    \cup {<<"prog", "doc.pdf", o>> : o \in {"None", "", "out.txt"}}
    \cup {<<"prog", "doc.pdf", o, "eng">> : o \in {"None", "out.txt"}}
    \cup {<<"prog", "doc.pdf", o, "eng", f>> :
            o \in {"None", "out.txt"}, f \in {"True", "false"}}

\* str.lower() on the force-flag literals
Lower(s) == CASE s = "True" -> "true"
              [] s = "TRUE" -> "true"
              [] OTHER -> s

VARIABLES
    argv,            \* sys.argv
    fileExists,      \* os.path.exists(pdf_path)
    doc,             \* the PDF's text layers, one per page
    tesseract,       \* is the OCR engine binary installed
    pc,              \* position in the program
    exitCode,        \* status passed to sys.exit, -1 while running
    output_txt,      \* parsed output path, None when saving is disabled
    use_ocr_always,  \* parsed force flag
    text,            \* the text accumulated by extract_pdf_text
    page_num,        \* pages read by the direct extractor
    images,          \* number of page images from the rasterizer, -1 before
    i,               \* pages handled by the OCR loop
    fitzOpens,       \* calls of fitz.open
    directError,     \* direct extraction raised
    probeCalls,      \* calls of pytesseract.get_tesseract_version
    rasterCalls,     \* calls of pdf_to_images
    rasterRaised,    \* convert_from_path raised
    preprocessed,    \* calls of preprocess_image
    ocrResults,      \* outcome of each image_to_string call
    ocrAppended,     \* what the OCR loop appended to text
    fileOpens,       \* calls of open(output_txt, 'w')
    fileCreated,     \* the output file exists
    fileContent,     \* content of the output file
    writeFailed,     \* the save raised
    returned,        \* value returned by analyze_document
    preview          \* preview printed by the main block

vars == <<argv, fileExists, doc, tesseract, pc, exitCode, output_txt,
          use_ocr_always, text, page_num, images, i, fitzOpens, directError,
          probeCalls, rasterCalls, rasterRaised, preprocessed, ocrResults,
          ocrAppended, fileOpens, fileCreated, fileContent, writeFailed,
          returned, preview>>

Init ==
    /\ argv \in ArgVectors
    /\ fileExists \in BOOLEAN
    /\ doc \in Documents
    /\ tesseract \in BOOLEAN
    /\ pc = "main"
    /\ exitCode = -1
    /\ output_txt = None
    /\ use_ocr_always = FALSE
    /\ text = << >>
    /\ page_num = 0
    /\ images = -1
    /\ i = 0
    /\ fitzOpens = 0
    /\ directError = FALSE
    /\ probeCalls = 0
    /\ rasterCalls = 0
    /\ rasterRaised = FALSE
    /\ preprocessed = 0
    /\ ocrResults = << >>
    /\ ocrAppended = << >>
    /\ fileOpens = 0
    /\ fileCreated = FALSE
    /\ fileContent = << >>
    /\ writeFailed = FALSE
    /\ returned = << >>
    /\ preview = << >>

\* sys.exit(1)
Exit1 == /\ pc' = "exit"
         /\ exitCode' = 1

\* the __main__ block up to the call of analyze_document
Main ==
    /\ pc = "main"
    /\ IF Len(argv) < 2
       THEN /\ Exit1
            /\ UNCHANGED <<output_txt, use_ocr_always>>
       ELSE /\ output_txt' = IF Len(argv) > 2 /\ argv[3] # "None"
                             THEN argv[3] ELSE None
            /\ use_ocr_always' = IF Len(argv) > 4
                                 THEN Lower(argv[5]) = "true" ELSE FALSE
            /\ pc' = "analyze"
            /\ UNCHANGED exitCode
    /\ UNCHANGED <<argv, fileExists, doc, tesseract, text, page_num, images, i,
                   fitzOpens, directError, probeCalls, rasterCalls,
                   rasterRaised, preprocessed, ocrResults, ocrAppended,
                   fileOpens, fileCreated, fileContent, writeFailed, returned, preview>>

\* the existence check skipped
FileMissing_Never(exists) == FALSE

\* if not os.path.exists(pdf_path)
FileMissing(exists) == ~exists

\* analyze_document: the existence check
ValidateInput ==
    /\ pc = "analyze"
    /\ IF FileMissing(fileExists)
       THEN Exit1
       ELSE /\ pc' = "extract"
            /\ UNCHANGED exitCode
    /\ UNCHANGED <<argv, fileExists, doc, tesseract, output_txt, use_ocr_always,
                   text, page_num, images, i, fitzOpens, directError,
                   probeCalls, rasterCalls, rasterRaised, preprocessed,
                   ocrResults, ocrAppended, fileOpens, fileCreated, fileContent,
                   writeFailed, returned, preview>>

\* the force flag ignored
TryDirect_Always(force) == TRUE

\* if not use_ocr_always
TryDirect(force) == ~force

\* extract_pdf_text: text = "", then fitz.open unless OCR is forced
ExtractStart ==
    /\ pc = "extract"
    /\ text' = << >>
    /\ IF TryDirect(use_ocr_always)
       THEN /\ fitzOpens' = fitzOpens + 1
            /\ \/ /\ pc' = "read_pages"          \* the document opens
                  /\ UNCHANGED directError
               \/ /\ pc' = "ocr_probe"           \* fitz.open raises
                  /\ directError' = TRUE
       ELSE /\ pc' = "ocr_probe"
            /\ UNCHANGED <<fitzOpens, directError>>
    /\ UNCHANGED <<argv, fileExists, doc, tesseract, exitCode, output_txt,
                   use_ocr_always, page_num, images, i, probeCalls,
                   rasterCalls, rasterRaised, preprocessed, ocrResults,
                   ocrAppended, fileOpens, fileCreated, fileContent, writeFailed, returned,
                   preview>>

\* one iteration of "for page_num, page in enumerate(doc)"
ReadPage ==
    /\ pc = "read_pages"
    /\ page_num < Len(doc)
    /\ \/ /\ text' = text \o PageBlock(page_num + 1, doc[page_num + 1])
          /\ page_num' = page_num + 1
          /\ UNCHANGED <<pc, directError>>
       \/ /\ pc' = "ocr_probe"                   \* page.get_text raises
          /\ directError' = TRUE
          /\ UNCHANGED <<text, page_num>>
    /\ UNCHANGED <<argv, fileExists, doc, tesseract, exitCode, output_txt,
                   use_ocr_always, images, i, fitzOpens, probeCalls,
                   rasterCalls, rasterRaised, preprocessed, ocrResults,
                   ocrAppended, fileOpens, fileCreated, fileContent, writeFailed, returned,
                   preview>>

\* after the loop: return the text if it is meaningful, else fall back
CheckThreshold ==
    /\ pc = "read_pages"
    /\ page_num = Len(doc)
    /\ pc' = IF MeaningfulText(text) THEN "save" ELSE "ocr_probe"
    /\ UNCHANGED <<argv, fileExists, doc, tesseract, exitCode, output_txt,
                   use_ocr_always, text, page_num, images, i, fitzOpens,
                   directError, probeCalls, rasterCalls, rasterRaised,
                   preprocessed, ocrResults, ocrAppended, fileOpens, fileCreated,
                   fileContent, writeFailed, returned, preview>>

\* calls of get_tesseract_version made by the check: the first raises when
\* the engine is missing, otherwise a second call formats the version line
VersionCalls(installed) == IF installed THEN 2 ELSE 1

\* the missing engine not treated as fatal
TesseractNotFound_Ignored(installed) == FALSE

\* except pytesseract.TesseractNotFoundError
TesseractNotFound(installed) == ~installed

\* the Tesseract availability check
Preflight ==
    /\ pc = "ocr_probe"
    /\ probeCalls' = probeCalls + VersionCalls(tesseract)
    /\ IF TesseractNotFound(tesseract)
       THEN Exit1
       ELSE /\ pc' = "rasterize"
            /\ UNCHANGED exitCode
    /\ UNCHANGED <<argv, fileExists, doc, tesseract, output_txt, use_ocr_always,
                   text, page_num, images, i, fitzOpens, directError,
                   rasterCalls, rasterRaised, preprocessed, ocrResults,
                   ocrAppended, fileOpens, fileCreated, fileContent, writeFailed, returned,
                   preview>>

\* page counts convert_from_path may deliver without raising: every page, or
\* none when the renderer fails silently
RasterOutcomes == {0, Len(doc)}

\* images = pdf_to_images(pdf_path)
pdf_to_images ==
    /\ pc = "rasterize"
    /\ rasterCalls' = rasterCalls + 1
    /\ \/ /\ rasterRaised' = TRUE                \* convert_from_path raises
          /\ Exit1
          /\ UNCHANGED images
       \/ \E n \in RasterOutcomes :
            /\ images' = n
            /\ pc' = "ocr_loop"
            /\ UNCHANGED <<rasterRaised, exitCode>>
    /\ UNCHANGED <<argv, fileExists, doc, tesseract, output_txt, use_ocr_always,
                   text, page_num, i, fitzOpens, directError, probeCalls,
                   preprocessed, ocrResults, ocrAppended, fileOpens, fileCreated,
                   fileContent, writeFailed, returned, preview>>

\* what one loop iteration appends for page n given the OCR outcome r
OcrAppend(n, r) == IF r.ok THEN PageBlock(n, r.text) ELSE << >>

\* one iteration of "for i, img in enumerate(images)"
OcrPage ==
    /\ pc = "ocr_loop"
    /\ i < images
    /\ preprocessed' = preprocessed + 1
    /\ \E r \in OcrOutcomes :
          /\ ocrResults' = Append(ocrResults, r)
          /\ text' = text \o OcrAppend(i + 1, r)
          /\ ocrAppended' = ocrAppended \o OcrAppend(i + 1, r)
    /\ i' = i + 1
    /\ UNCHANGED <<argv, fileExists, doc, tesseract, pc, exitCode, output_txt,
                   use_ocr_always, page_num, images, fitzOpens, directError,
                   probeCalls, rasterCalls, rasterRaised, fileOpens, fileCreated,
                   fileContent, writeFailed, returned, preview>>

\* the loop is over: return text
OcrReturn ==
    /\ pc = "ocr_loop"
    /\ i = images
    /\ pc' = "save"
    /\ UNCHANGED <<argv, fileExists, doc, tesseract, exitCode, output_txt,
                   use_ocr_always, text, page_num, images, i, fitzOpens,
                   directError, probeCalls, rasterCalls, rasterRaised,
                   preprocessed, ocrResults, ocrAppended, fileOpens, fileCreated,
                   fileContent, writeFailed, returned, preview>>

\* the save attempted whatever output_txt is
WantsFile_Always(out) == TRUE

\* if output_txt
WantsFile(out) == out # None /\ out # ""

\* analyze_document after extraction: optional save, summary, return
SaveAndReturn ==
    /\ pc = "save"
    /\ IF WantsFile(output_txt)
       THEN /\ fileOpens' = fileOpens + 1
            /\ \/ /\ fileCreated' = TRUE         \* written and closed
                  /\ fileContent' = text
                  /\ writeFailed' = FALSE
               \/ /\ writeFailed' = TRUE         \* open raises
                  /\ UNCHANGED <<fileCreated, fileContent>>
               \/ /\ fileCreated' = TRUE         \* write raises, file closed
                  /\ fileContent' = << >>
                  /\ writeFailed' = TRUE
       ELSE /\ UNCHANGED <<fileOpens, fileCreated, fileContent, writeFailed>>
    /\ returned' = text
    /\ pc' = "done"
    /\ UNCHANGED <<argv, fileExists, doc, tesseract, exitCode, output_txt,
                   use_ocr_always, text, page_num, images, i, fitzOpens,
                   directError, probeCalls, rasterCalls, rasterRaised,
                   preprocessed, ocrResults, ocrAppended, preview>>

\* the __main__ block after analyze_document returned
PrintPreview ==
    /\ pc = "done"
    /\ preview' = Preview(returned)
    /\ pc' = "finished"
    /\ exitCode' = 0
    /\ UNCHANGED <<argv, fileExists, doc, tesseract, output_txt, use_ocr_always,
                   text, page_num, images, i, fitzOpens, directError,
                   probeCalls, rasterCalls, rasterRaised, preprocessed,
                   ocrResults, ocrAppended, fileOpens, fileCreated, fileContent,
                   writeFailed, returned>>

Next ==
    \/ Main
    \/ ValidateInput
    \/ ExtractStart
    \/ ReadPage
    \/ CheckThreshold
    \/ Preflight
    \/ pdf_to_images
    \/ OcrPage
    \/ OcrReturn
    \/ SaveAndReturn
    \/ PrintPreview

Spec == Init /\ [][Next]_vars

(* ------------------- reading a text back into pages -------------------- *)
HeaderPrefix == <<"-", "-", "-", " ", "P", "a", "g", "e", " ">>
HeaderSuffix == <<" ", "-", "-", "-">>

IsDigit(c) == \E d \in 1..10 : DigitChar[d] = c
DigitValue(c) == (CHOOSE d \in 1..10 : DigitChar[d] = c) - 1

RECURSIVE FromDigits(_)
FromDigits(ds) ==
    IF Len(ds) = 0 THEN 0
    ELSE 10 * FromDigits(SubSeq(ds, 1, Len(ds) - 1)) + DigitValue(ds[Len(ds)])

MatchesAt(t, pos, pat) ==
    /\ pos + Len(pat) - 1 <= Len(t)
    /\ SubSeq(t, pos, pos + Len(pat) - 1) = pat

\* the position right after the header number when a header starts at p
NumberEnds(t, p) ==
    {e \in (p + Len(HeaderPrefix) + 1)..(p + Len(HeaderPrefix) + 3) :
        /\ e <= Len(t)
        /\ \A k \in (p + Len(HeaderPrefix))..(e - 1) : IsDigit(t[k])
        /\ MatchesAt(t, e, HeaderSuffix)}

HeaderStarts(t) ==
    {p \in 1..Len(t) : MatchesAt(t, p, HeaderPrefix) /\ NumberEnds(t, p) # {}}

NumberAt(t, p) ==
    LET e == CHOOSE x \in NumberEnds(t, p) : TRUE
    IN  FromDigits(SubSeq(t, p + Len(HeaderPrefix), e - 1))

\* the page numbers of the "--- Page N ---" headers of t, in text order
HeaderNumbers(t) ==
    LET S == HeaderStarts(t)
        Nth(k) == CHOOSE p \in S : Cardinality({q \in S : q < p}) = k - 1
    IN  [k \in 1..Cardinality(S) |-> NumberAt(t, Nth(k))]

\* the header line and block of page n as the output format states them
HeaderLine(n) == HeaderPrefix \o ToStr(n) \o HeaderSuffix
Block(n, body) == HeaderLine(n) \o <<NL>> \o body \o <<NL, NL>>

\* concatenation over pages 1..Len(bodies) of each page's block
RECURSIVE Concat(_)
Concat(bodies) ==
    IF Len(bodies) = 0 THEN << >>
    ELSE Concat(SubSeq(bodies, 1, Len(bodies) - 1))
            \o Block(Len(bodies), bodies[Len(bodies)])

RECURSIVE LayerLen(_)
LayerLen(d) == IF Len(d) = 0 THEN 0 ELSE Len(Head(d)) + LayerLen(Tail(d))

IsSuffix(a, b) ==
    /\ Len(a) <= Len(b)
    /\ SubSeq(b, Len(b) - Len(a) + 1, Len(b)) = a

Returned == pc \in {"done", "finished"}
FatalAbort == pc = "exit" /\ exitCode = 1

NoOcrActivity ==
    /\ probeCalls = 0
    /\ rasterCalls = 0
    /\ preprocessed = 0
    /\ Len(ocrResults) = 0

\* direct extraction ran over every page without raising and was judged
DirectCompleted ==
    /\ ~use_ocr_always
    /\ fitzOpens = 1
    /\ ~directError
    /\ page_num = Len(doc)
    /\ pc # "read_pages"

\* the run left direct extraction for the OCR path
FellBack == fitzOpens = 1 /\ pc \notin {"read_pages", "save"} /\ probeCalls > 0

TypeOK ==
    /\ pc \in {"main", "analyze", "extract", "read_pages", "ocr_probe",
               "rasterize", "ocr_loop", "save", "done", "finished", "exit"}
    /\ exitCode \in {-1, 0, 1}
    /\ page_num \in 0..Len(doc)
    /\ images \in -1..Len(doc)

(* ------------------------------- C1 ------------------------------------ *)
\* C1 as stated: without the force flag, when the document is read without
\* error and its text layer holds more than 50 characters in total, the
\* returned text is the in-order concatenation of the page blocks and the
\* engine probe, the rasterizer and the per-page OCR are never invoked.
C1_AsStated ==
    (DirectCompleted /\ LayerLen(doc) > Threshold)
        => /\ NoOcrActivity
           /\ Returned => returned = Concat(doc)

\* C1 amended: the same conclusion when the accumulated text, headers
\* included and trimmed of surrounding whitespace, is longer than 50.
C1_DirectResult ==
    (DirectCompleted /\ Len(strip(Concat(doc))) > Threshold)
        => /\ NoOcrActivity
           /\ Returned => returned = Concat(doc)

C1_Witness ==
    /\ DirectCompleted
    /\ Returned
    /\ Len(doc) >= 2
    /\ LayerLen(doc) > Threshold
    /\ Len(strip(Concat(doc))) > Threshold
    /\ returned = Concat(doc)

(* ------------------------------- C2 ------------------------------------ *)
\* C2: for a document of one or more pages whose every page has an empty
\* text layer, a run without the force flag never judges direct extraction
\* sufficient: the output comes from the OCR path.
C2_EmptyDocFallsBack ==
    (DirectCompleted /\ \A k \in 1..Len(doc) : doc[k] = EmptyLayer)
        => ~(pc \in {"save", "done", "finished"} /\ probeCalls = 0)

(* ------------------------------- C3 ------------------------------------ *)
\* C3: when direct extraction falls back to OCR (here with every page
\* rasterized), the text it accumulated is discarded: the returned text is
\* exactly what the OCR loop appended.
C3_FallbackDiscardsDirectText ==
    (Returned /\ FellBack /\ images = Len(doc)) => returned = ocrAppended

(* ------------------------------- C4 ------------------------------------ *)
\* the OCR output the claim expects: one block per image, a failed page
\* keeping its header over an empty body
ExpectedOcrText == Concat([k \in 1..Len(ocrResults) |-> ocrResults[k].text])

\* C4: on the OCR path over N page images where exactly one OCR call fails,
\* the run returns and the returned text carries N headers, the failed
\* page's header with an empty body, the others with their recognised text.
C4_FailedPageKeepsHeader ==
    (/\ Returned
     /\ images >= 1
     /\ Cardinality({k \in 1..Len(ocrResults) : ~ocrResults[k].ok}) = 1)
        => /\ Len(ocrResults) = images
           /\ IsSuffix(ExpectedOcrText, returned)

(* ------------------------------- C5 ------------------------------------ *)
\* C5: every run that returns (directly, or over the OCR path with every
\* page rasterized) carries the headers 1, 2, ..., N of its N-page document,
\* each once and in increasing order.
C5_HeadersAreOneToN ==
    (Returned /\ images \in {-1, Len(doc)})
        => HeaderNumbers(returned) = [k \in 1..Len(doc) |-> k]

\* the headers of a run that returns from direct extraction, or from forced
\* OCR with every page rasterized and recognised, are 1..N
HeadersOfCleanRuns ==
    (/\ Returned
     /\ images \in {-1, Len(doc)}
     /\ ~FellBack
     /\ \A k \in 1..Len(ocrResults) : ocrResults[k].ok)
        => HeaderNumbers(returned) = [k \in 1..Len(doc) |-> k]

(* ------------------------------- C6 ------------------------------------ *)
\* C6: with the force flag set, the text-layer reader never opens the
\* document and reads no page; control is never in direct extraction.
C6_ForcedOcrSkipsDirect ==
    use_ocr_always
        => /\ fitzOpens = 0
           /\ page_num = 0
           /\ pc # "read_pages"
           /\ pc \in {"save", "done", "finished"} => probeCalls > 0

C6_Witness ==
    /\ use_ocr_always
    /\ Returned
    /\ LayerLen(doc) > Threshold
    /\ rasterCalls = 1
    /\ Len(ocrResults) = Len(doc)

(* ------------------------------- C7 ------------------------------------ *)
\* C7: when the rasterizer raises or delivers no page image, the run never
\* returns text.
C7_NoImagesIsFatal ==
    (rasterRaised \/ images = 0) => ~Returned

(* ------------------------------- C8 ------------------------------------ *)
\* C8: when the input file does not exist, no extraction, rasterization or
\* OCR step runs, no output file is opened or created, and a run past the
\* existence check has exited with status 1.
C8_MissingFileAborts ==
    ~fileExists
        => /\ fitzOpens = 0
           /\ NoOcrActivity
           /\ fileOpens = 0
           /\ ~fileCreated
           /\ pc \in {"main", "analyze", "exit"}
           /\ pc = "exit" => exitCode = 1

C8_Witness ==
    /\ ~fileExists
    /\ FatalAbort
    /\ output_txt = "out.txt"

(* ------------------------------- C9 ------------------------------------ *)
\* C9: the returned text is the extracted text whatever the output option;
\* without an output path (None, or the command line's "None" literal or a
\* missing argument) no file is opened or created; a failed save still
\* ends in a return of the same text; the file is opened at most once, and
\* only once extraction is over.
C9_SaveNeverChangesResult ==
    /\ Returned => returned = text
    /\ ~(output_txt # None /\ output_txt # "") => fileOpens = 0 /\ ~fileCreated
    /\ (pc # "main" /\ (Len(argv) <= 2 \/ argv[3] \in {"None", ""}))
          => fileOpens = 0 /\ ~fileCreated
    /\ writeFailed => Returned /\ returned = text
    /\ fileOpens <= 1
    /\ fileOpens = 1 => Returned
    /\ (fileCreated /\ ~writeFailed) => fileContent = text

C9_Witness ==
    /\ Returned
    /\ writeFailed
    /\ Len(returned) > 0
    /\ returned = text

C9_WitnessNoFile ==
    /\ Returned
    /\ Len(argv) > 2
    /\ argv[3] = "None"
    /\ fileOpens = 0
    /\ Len(returned) > 0

(* ------------------------------- C10 ----------------------------------- *)
\* the part of C10 about order and the fatal exit
PreflightGuardsOcr ==
    /\ (pc \in {"rasterize", "ocr_loop"} \/ rasterCalls > 0 \/ preprocessed > 0
            \/ Len(ocrResults) > 0) => (probeCalls > 0 /\ tesseract)
    /\ (~tesseract /\ probeCalls > 0)
          => /\ FatalAbort
             /\ rasterCalls = 0
             /\ preprocessed = 0
             /\ Len(ocrResults) = 0
             /\ fileOpens = 0
             /\ ~fileCreated

\* the run has passed the availability check
PastPreflight == pc \in {"rasterize", "ocr_loop"} \/ probeCalls > 0

\* C10 as stated: on a run that enters the OCR path the engine probe is
\* called exactly once, before rasterization and before any page is
\* handled; a missing engine ends the run fatally with nothing rasterized,
\* preprocessed, recognised or written.
C10_AsStated ==
    /\ PastPreflight => probeCalls = 1
    /\ PreflightGuardsOcr

\* C10 amended: the availability check runs once per run, never per page; it
\* calls the version probe twice when the engine is found and once when it
\* is missing; order and fatal exit as stated.
C10_PreflightOnce ==
    /\ PastPreflight => probeCalls = IF tesseract THEN 2 ELSE 1
    /\ PreflightGuardsOcr

C10_Witness ==
    /\ ~tesseract
    /\ probeCalls = 1
    /\ FatalAbort
    /\ output_txt = "out.txt"

C10_WitnessFound ==
    /\ tesseract
    /\ probeCalls = 2
    /\ Returned
    /\ Len(ocrResults) >= 2
====
